---- MODULE Spec2Model ----
(***************************************************************************)
(* Model of src/app/_client/home-page/index.tsx: the form-definition       *)
(* editor (HomePage), its live preview (GeneratedPreview) and the export   *)
(* handler (onSubmit behind the zod schema).                               *)
(*                                                                         *)
(* Texts (name, label, rules, preview values, id) are sequences of         *)
(* one-character strings, so that trim(), includes() and min(1) are        *)
(* computed on the characters as the code computes them.                   *)
(***************************************************************************)
EXTENDS Naturals, Sequences, FiniteSets

VARIABLES
  fields,         \* form.watch('fields'): the editor form's field rows, in order
  resolver,       \* form.watch('resolver')
  uiLib,          \* form.watch('uiLib')
  previewValues,  \* previewForm's value store: registered name -> text
  previewErrors,  \* previewForm.formState.errors: the names carrying an error
  isSubmitted,    \* previewForm.formState.isSubmitted
  view,           \* what GeneratedPreview returned: "placeholder" or "form"
  dom,            \* the rendered preview inputs: [key, field, value] per input
  written,        \* texts handed to navigator.clipboard.writeText by the last handler
  issues,         \* schema issues (<<row, key>>) reported by the last handler
  logged,         \* what the last handler passed to console.log: "", "export", "preview"
  last            \* the handler that ran last, and its arguments

vars == <<fields, resolver, uiLib, previewValues, previewErrors, isSubmitted,
          view, dom, written, issues, logged, last>>

------------------------------------------------------------------------------
(* Texts *)

T_empty == << >>
T_space == <<" ">>
T_a == <<"a">>
T_b == <<"b">>
T_7 == <<"7">>
T_mail == <<"a", "@", "b">>
T_email == <<"e", "m", "a", "i", "l">>
T_Email == <<"E", "m", "a", "i", "l">>
T_L == <<"L">>
T_one == <<"1">>
T_required == <<"r", "e", "q", "u", "i", "r", "e", "d">>
T_Required == <<"R", "e", "q", "u", "i", "r", "e", "d">>
T_notrequired == <<"n", "o", "t">> \o T_required
T_requiredish == T_required \o <<"-", "i", "s", "h">>
T_seedRules == T_email \o <<"(", ")", " ", "|", " ">> \o T_required \o <<"(", ")">>

\* The characters String.prototype.trim strips that an <input> can hold.
WhiteSpace == {" ", "\t"}

RECURSIVE TrimStart(_)
TrimStart(s) ==
  IF s # << >> /\ Head(s) \in WhiteSpace THEN TrimStart(Tail(s)) ELSE s

RECURSIVE TrimEnd(_)
TrimEnd(s) ==
  IF s # << >> /\ s[Len(s)] \in WhiteSpace
  THEN TrimEnd(SubSeq(s, 1, Len(s) - 1)) ELSE s

\* String.prototype.trim
Trim(s) == TrimEnd(TrimStart(s))

\* String.prototype.includes
Includes(s, sub) ==
  \E i \in 0..Len(s) : i + Len(sub) <= Len(s) /\ SubSeq(s, i + 1, i + Len(sub)) = sub

\* JavaScript truthiness of a string
Truthy(s) == Len(s) > 0

------------------------------------------------------------------------------
(* The editor form: type Field, type FormData, defaultValues *)

ResolverKinds == {"zod", "joi"}
UiLibKinds == {"shadcn", "mui", "chakra"}
FieldTypes == {"text", "email", "number"}

SeedField ==
  [id |-> T_one, name |-> T_email, type |-> "email", label |-> T_Email,
   rules |-> T_seedRules]

\* The argument of append(...): no id.
AppendDefaults ==
  [name |-> T_empty, label |-> T_empty, type |-> "text", rules |-> T_empty]

HasId(f) == "id" \in DOMAIN f

\* A row with one attribute replaced (register(`fields.${idx}.x`), setValue).
WithAttr(f, k, v) == [a \in DOMAIN f |-> IF a = k THEN v ELSE f[a]]

\* What a row says, its identity aside.
Content(f) == [a \in {"name", "type", "label", "rules"} |-> f[a]]

Contents(fs) == [i \in 1..Len(fs) |-> Content(fs[i])]

------------------------------------------------------------------------------
(* GeneratedPreview: the projection, the registration of the inputs and the
   reconciliation of the rendered inputs *)

\* The filter without the trim: previewSchema.filter((field) => field.name)
validFieldsUntrimmed(previewSchema) ==
  SelectSeq(previewSchema, LAMBDA f : Truthy(f.name))

\* previewSchema.filter((field) => field.name.trim())
validFields(previewSchema) ==
  SelectSeq(previewSchema, LAMBDA f : Truthy(Trim(f.name)))

\* validFields.reduce(... acc[field.name] = '' ...)
defaultValues(vf) ==
  [n \in {vf[i].name : i \in 1..Len(vf)} |-> T_empty]

\* The placeholder decided on the rows given: if (!previewSchema.length)
PreviewViewOfAllRows(previewSchema) ==
  IF ~(Len(previewSchema) > 0) THEN "placeholder" ELSE "form"

\* if (!validFields.length) return <placeholder/>; otherwise the <form>
PreviewView(previewSchema) ==
  IF ~(Len(validFields(previewSchema)) > 0) THEN "placeholder" ELSE "form"

\* A key made of the child's position, as key={idx} would be.
KeyByPosition(vf, i) == <<"#", <<"1", "2", "3", "4", "5">>[i]>>

\* key={field.id || field.name} of the i-th child
Key(vf, i) ==
  IF HasId(vf[i]) /\ Truthy(vf[i].id) THEN vf[i].id ELSE vf[i].name

\* The control filed under the row's identity: register(field.id || field.name)
RegisterIdentity(f) == IF HasId(f) /\ Truthy(f.id) THEN f.id ELSE f.name

\* The key previewForm.register(...) files the control under.
RegisterName(f) == f.name

\* The rule compared whole: field.rules === 'required'
RequiredExactly(f) == f.rules = T_required

\* required: field.rules?.includes('required') || false
Required(f) == Includes(f.rules, T_required)

\* The text in the DOM input React hands to the child with key k: the input of
\* the previous render's child with that key, or a new, empty input.  (Two
\* previous children can share a key only by sharing a name, which is then
\* registered already, and RegisterValues overwrites the input's text.)
ReusedText(oldDom, k) ==
  IF \E j \in 1..Len(oldDom) : oldDom[j].key = k
  THEN oldDom[CHOOSE j \in 1..Len(oldDom) :
                oldDom[j].key = k /\ \A h \in 1..(j - 1) : oldDom[h].key # k].value
  ELSE T_empty

\* The ref callbacks of register(name): a name with a stored value writes it
\* into its input; a name without one takes the text of its (first) input.
RegisterValues(vf, oldDom, pv) ==
  LET names == {RegisterName(vf[i]) : i \in 1..Len(vf)}
      first(n) == CHOOSE i \in 1..Len(vf) :
                    RegisterName(vf[i]) = n
                    /\ \A h \in 1..(i - 1) : RegisterName(vf[h]) # n
  IN [n \in DOMAIN pv \cup names |->
        IF n \in DOMAIN pv THEN pv[n] ELSE ReusedText(oldDom, Key(vf, first(n)))]

\* validFields.map((field) => <div key=...><Input {...register(field.name)} />)
RenderInputs(vf, oldDom, pv) ==
  LET pv2 == RegisterValues(vf, oldDom, pv)
  IN [i \in 1..Len(vf) |->
        [key |-> Key(vf, i), field |-> vf[i], value |-> pv2[RegisterName(vf[i])]]]

\* One render of GeneratedPreview with previewSchema = fs.
Render(fs) ==
  LET vf == validFields(fs)
  IN /\ view' = PreviewView(fs)
     /\ IF view' = "form"
        THEN /\ dom' = RenderInputs(vf, dom, previewValues)
             /\ previewValues' = RegisterValues(vf, dom, previewValues)
        ELSE /\ dom' = << >>
             /\ previewValues' = previewValues

Digits == {"0", "1", "2", "3", "4", "5", "6", "7", "8", "9"}

\* <Input type={field.type}>: the text the browser lets the input hold (a
\* number input holds digits only).
InputAccepts(type, v) ==
  type = "number" => \A p \in 1..Len(v) : v[p] \in Digits

\* The browser's check of an input before it lets the <form> submit (the form
\* has no noValidate): an email input is empty or holds something@something.
NativeValid(type, v) ==
  type = "email"
  => (v = T_empty \/ \E p \in 2..(Len(v) - 1) : v[p] = "@")

\* The input register(name) holds as its ref: the last one rendered under name.
RefOf(d, n) ==
  CHOOSE j \in 1..Len(d) :
    RegisterName(d[j].field) = n
    /\ \A h \in (j + 1)..Len(d) : RegisterName(d[h].field) # n

\* The options register(name, { required }) keeps: those of the last call.
RequiredOf(d, n) == Required(d[RefOf(d, n)].field)

Mounted(d) == {RegisterName(d[j].field) : j \in 1..Len(d)}

\* validateField of a mounted name: required and an empty value.
FieldError(d, pv, n) ==
  RequiredOf(d, n) /\ (d[RefOf(d, n)].value = T_empty \/ pv[n] = T_empty)

------------------------------------------------------------------------------
(* Export: the zod schema, JSON.stringify, onSubmit *)

SchemaFieldKeys == <<"name", "type", "label", "rules">>
SchemaKeys == <<"fields", "resolver", "uiLib">>

Range(q) == {q[i] : i \in 1..Len(q)}

\* z.string().min(0, ...)
Min0(s) == Len(s) >= 0

\* z.string().min(1, ...)
Min1(s) == Len(s) >= 1

\* The issues schema.parse reports: one per failing z.string().min(1).
SchemaIssues(fs) ==
  {<<i, "name">> : i \in {j \in 1..Len(fs) : ~Min1(fs[j].name)}}
  \cup {<<i, "label">> : i \in {j \in 1..Len(fs) : ~Min1(fs[j].label)}}

\* z.object({...}).passthrough() keeps every key.
ParseFieldPassthrough(f) == f

\* z.object({...}) keeps the keys of its shape and strips the others.
ParseField(f) == [k \in Range(SchemaFieldKeys) \cap DOMAIN f |-> f[k]]

\* The data zodResolver hands to onSubmit.
ParseData(fs, r, u) ==
  [fields |-> [i \in 1..Len(fs) |-> ParseField(fs[i])], resolver |-> r, uiLib |-> u]

\* JSON.stringify of an object: its own keys, in the order the parse created
\* them (the shape's order; a key outside the shape would follow), each with
\* its value.
JsonObject(obj, order) ==
  LET keys == SelectSeq(order, LAMBDA k : k \in DOMAIN obj)
  IN [i \in 1..Len(keys) |-> <<keys[i], obj[keys[i]]>>]

\* JSON.stringify(data, null, 2)
Stringify(data) ==
  LET rows == [i \in 1..Len(data.fields) |->
                 JsonObject(data.fields[i], SchemaFieldKeys \o <<"id">>)]
  IN JsonObject([fields |-> rows, resolver |-> data.resolver, uiLib |-> data.uiLib],
                SchemaKeys)

------------------------------------------------------------------------------
(* Bounds and the texts the handlers are tried with *)

MaxFields == 2

\* The editor and export specification's inputs.
StoreNames == {T_empty, T_space, T_a}
StoreLabels == {T_empty, T_L}
StoreRules == {T_empty}
StoreTypes == {"number"}
StoreResolvers == {"joi", "zod"}
StoreUiLibs == {"mui", "shadcn"}

\* The preview specification's inputs.
PreviewNames == {T_empty, T_space, T_a, T_b}
PreviewRules == {T_empty}
PreviewTexts == {T_empty, T_7, T_mail}

\* The required-rule specification's inputs.
RequiredNames == {T_a}
RequiredTexts == {T_empty, T_7}
RequiredRules == {T_empty, T_Required, T_notrequired, T_requiredish, T_seedRules}

\* The record of a handler that ran: idx the row (or preview input) it was given,
\* from the name a rename replaced, fresh whether the new name had no preview
\* value yet, undo what an append must be undone to by the remove that follows.
Did(op) ==
  [op |-> op, idx |-> 0, from |-> T_empty, fresh |-> FALSE, undo |-> << >>]

Snapshot == <<Contents(fields), resolver, uiLib>>

Quiet == written' = << >> /\ issues' = {} /\ logged' = ""

PreviewFormKept == UNCHANGED <<previewErrors, isSubmitted>>

------------------------------------------------------------------------------
(* State after construction: useForm({ defaultValues }) of both forms and the
   first render *)

Init ==
  /\ fields = <<SeedField>>
  /\ resolver = "zod"
  /\ uiLib = "shadcn"
  /\ previewValues = RegisterValues(validFields(fields), << >>,
                                   defaultValues(validFields(fields)))
  /\ previewErrors = {}
  /\ isSubmitted = FALSE
  /\ view = PreviewView(fields)
  /\ dom = RenderInputs(validFields(fields), << >>, previewValues)
  /\ written = << >>
  /\ issues = {}
  /\ logged = ""
  /\ last = Did("init")

------------------------------------------------------------------------------
(* HomePage: the editor's handlers.  Each changes the editor form's values,
   which re-renders HomePage and with it GeneratedPreview. *)

\* append({ name: '', label: '', type: 'text', rules: '' })
AppendField ==
  /\ Len(fields) < MaxFields
  /\ fields' = Append(fields, AppendDefaults)
  /\ UNCHANGED <<resolver, uiLib>>
  /\ Render(fields')
  /\ PreviewFormKept /\ Quiet
  /\ last' = [Did("append") EXCEPT !.idx = Len(fields) + 1, !.undo = <<Snapshot>>]

\* remove() called without the position takes every row out.
RemoveAll(fs, idx) == << >>

\* The rows with the one at position idx taken out.
RemoveAt(fs, idx) ==
  [i \in 1..(Len(fs) - 1) |-> IF i < idx THEN fs[i] ELSE fs[i + 1]]

\* remove(idx), the x button of row idx
RemoveField(idx) ==
  /\ idx \in 1..Len(fields)
  /\ fields' = RemoveAt(fields, idx)
  /\ UNCHANGED <<resolver, uiLib>>
  /\ Render(fields')
  /\ PreviewFormKept /\ Quiet
  /\ last' = [Did("remove") EXCEPT
                !.idx = idx,
                !.undo = IF last.op = "append" /\ idx = Len(fields)
                         THEN last.undo ELSE << >>]

\* typing into row idx's name input: register(`fields.${idx}.name`)
SetName(idx, v) ==
  /\ idx \in 1..Len(fields)
  /\ v # fields[idx].name
  /\ fields' = [fields EXCEPT ![idx] = WithAttr(@, "name", v)]
  /\ UNCHANGED <<resolver, uiLib>>
  /\ Render(fields')
  /\ PreviewFormKept /\ Quiet
  /\ last' = [Did("name") EXCEPT !.idx = idx, !.from = fields[idx].name,
                                  !.fresh = v \notin DOMAIN previewValues]

\* typing into row idx's label input: register(`fields.${idx}.label`)
SetLabel(idx, v) ==
  /\ idx \in 1..Len(fields)
  /\ v # fields[idx].label
  /\ fields' = [fields EXCEPT ![idx] = WithAttr(@, "label", v)]
  /\ UNCHANGED <<resolver, uiLib>>
  /\ Render(fields')
  /\ PreviewFormKept /\ Quiet
  /\ last' = Did("edit")

\* typing into row idx's rules input: register(`fields.${idx}.rules`)
SetRules(idx, v) ==
  /\ idx \in 1..Len(fields)
  /\ v # fields[idx].rules
  /\ fields' = [fields EXCEPT ![idx] = WithAttr(@, "rules", v)]
  /\ UNCHANGED <<resolver, uiLib>>
  /\ Render(fields')
  /\ PreviewFormKept /\ Quiet
  /\ last' = Did("edit")

\* row idx's type select: form.setValue(`fields.${idx}.type`, v)
SetType(idx, v) ==
  /\ idx \in 1..Len(fields)
  /\ fields' = [fields EXCEPT ![idx] = WithAttr(@, "type", v)]
  /\ UNCHANGED <<resolver, uiLib>>
  /\ Render(fields')
  /\ PreviewFormKept /\ Quiet
  /\ last' = Did("edit")

\* form.setValue('resolver', v)
SetResolver(v) ==
  /\ v # resolver
  /\ resolver' = v
  /\ UNCHANGED <<fields, uiLib>>
  /\ Render(fields')
  /\ PreviewFormKept /\ Quiet
  /\ last' = Did("select")

\* form.setValue('uiLib', v)
SetUiLib(v) ==
  /\ v # uiLib
  /\ uiLib' = v
  /\ UNCHANGED <<fields, resolver>>
  /\ Render(fields')
  /\ PreviewFormKept /\ Quiet
  /\ last' = Did("select")

\* const onSubmit = (data) => { writeText(JSON.stringify(data, null, 2)); log }
onSubmit(data) ==
  /\ written' = <<Stringify(data)>>
  /\ logged' = "export"

\* The export button: form.handleSubmit(onSubmit)() behind zodResolver(schema)
Export ==
  /\ issues' = SchemaIssues(fields)
  /\ IF issues' = {}
     THEN onSubmit(ParseData(fields, resolver, uiLib))
     ELSE written' = << >> /\ logged' = ""
  /\ UNCHANGED <<fields, resolver, uiLib, previewValues, previewErrors,
                 isSubmitted, view, dom>>
  /\ last' = Did("export")

------------------------------------------------------------------------------
(* GeneratedPreview: the preview form's handlers *)

\* typing v into the i-th preview input: the onChange of register(name)
PreviewType(i, v) ==
  /\ view = "form"
  /\ i \in 1..Len(dom)
  /\ v # dom[i].value
  /\ InputAccepts(dom[i].field.type, v)
  /\ LET n == RegisterName(dom[i].field)
         typed == [dom EXCEPT ![i].value = v]
         \* getFieldValue(field._f): the text of the input held as the ref
         pv2 == [previewValues EXCEPT ![n] = typed[RefOf(typed, n)].value]
         \* reValidateMode onChange, once submitted
         validate == isSubmitted /\ (RequiredOf(typed, n) \/ n \in previewErrors)
         errs2 == IF ~validate THEN previewErrors
                  ELSE IF FieldError(typed, pv2, n) THEN previewErrors \cup {n}
                  ELSE previewErrors \ {n}
     IN /\ previewValues' = pv2
        /\ previewErrors' = errs2
        \* formState.errors is read in the render: a change of it re-renders
        /\ dom' = IF errs2 # previewErrors
                  THEN RenderInputs(validFields(fields), typed, pv2)
                  ELSE typed
  /\ UNCHANGED <<fields, resolver, uiLib, isSubmitted, view>>
  /\ Quiet
  /\ last' = [Did("type") EXCEPT !.idx = i]

\* The preview's submit wired to the export: handleSubmit(onSubmit)
previewOnValidExporting ==
  /\ written' = <<Stringify(ParseData(fields, resolver, uiLib))>>
  /\ issues' = {}
  /\ logged' = "export"

\* (data) => console.log('Preview submit:', data)
previewOnValid ==
  /\ written' = << >>
  /\ issues' = {}
  /\ logged' = "preview"

\* the preview's submit button: previewForm.handleSubmit(...)
PreviewSubmit ==
  /\ view = "form"
  /\ \A j \in 1..Len(dom) : NativeValid(dom[j].field.type, dom[j].value)
  /\ previewErrors' = {n \in Mounted(dom) : FieldError(dom, previewValues, n)}
  /\ isSubmitted' = TRUE
  /\ IF previewErrors' = {} THEN previewOnValid ELSE Quiet
  /\ UNCHANGED <<fields, resolver, uiLib>>
  /\ Render(fields)
  /\ last' = Did("submit")

------------------------------------------------------------------------------
(* Specifications *)

\* The editor and the export.
Next ==
  \/ AppendField
  \/ \E idx \in 1..MaxFields : RemoveField(idx)
  \/ \E idx \in 1..MaxFields, v \in StoreNames : SetName(idx, v)
  \/ \E idx \in 1..MaxFields, v \in StoreLabels : SetLabel(idx, v)
  \/ \E idx \in 1..MaxFields, v \in StoreRules : SetRules(idx, v)
  \/ \E idx \in 1..MaxFields, v \in StoreTypes : SetType(idx, v)
  \/ \E v \in StoreResolvers : SetResolver(v)
  \/ \E v \in StoreUiLibs : SetUiLib(v)
  \/ Export

Spec == Init /\ [][Next]_vars

\* The editor's names and the preview form in use.
NextPreview ==
  \/ AppendField
  \/ \E idx \in 1..MaxFields : RemoveField(idx)
  \/ \E idx \in 1..MaxFields, v \in PreviewNames : SetName(idx, v)
  \/ \E idx \in 1..MaxFields, v \in PreviewRules : SetRules(idx, v)
  \/ \E i \in 1..MaxFields, v \in PreviewTexts : PreviewType(i, v)
  \/ PreviewSubmit
  \/ Export

SpecPreview == Init /\ [][NextPreview]_vars

\* The editor's rules and the preview form's required check.
NextRequired ==
  \/ AppendField
  \/ \E idx \in 1..MaxFields : RemoveField(idx)
  \/ \E idx \in 1..MaxFields, v \in RequiredNames : SetName(idx, v)
  \/ \E idx \in 1..MaxFields, v \in RequiredRules : SetRules(idx, v)
  \/ \E i \in 1..MaxFields, v \in RequiredTexts : PreviewType(i, v)
  \/ PreviewSubmit

SpecRequired == Init /\ [][NextRequired]_vars

------------------------------------------------------------------------------
(* What the claims speak of, stated apart from the code's own operators *)

\* Empty, or nothing but white space.
IsBlank(s) == \A i \in 1..Len(s) : s[i] \in WhiteSpace

RECURSIVE NonBlankNamed(_)
\* The rows with a non-blank name, in the rows' order.
NonBlankNamed(fs) ==
  IF fs = << >> THEN << >>
  ELSE (IF IsBlank(Head(fs).name) THEN << >> ELSE <<Head(fs)>>)
       \o NonBlankNamed(Tail(fs))

\* The rows the preview shows an input for.
Shown == [j \in 1..Len(dom) |-> dom[j].field]

\* The text "required" stands somewhere in s.
MentionsRequired(s) ==
  \E p \in 1..Len(s) :
    /\ p + 7 <= Len(s)
    /\ <<s[p], s[p + 1], s[p + 2], s[p + 3], s[p + 4], s[p + 5], s[p + 6], s[p + 7]>>
         = <<"r", "e", "q", "u", "i", "r", "e", "d">>

\* The preview value and the error mark of a shown row.
PreviewValueOf(f) == previewValues[RegisterName(f)]
MarkedInvalid(f) == RegisterName(f) \in previewErrors

\* No other shown row carries row j's name.
NameIsUnique(j) == \A h \in 1..Len(dom) : h # j => dom[h].field.name # dom[j].field.name

\* The payload the export is to write, from the store.
ExpectedPayload ==
  << <<"fields",
       [i \in 1..Len(fields) |->
          << <<"name", fields[i].name>>, <<"type", fields[i].type>>,
             <<"label", fields[i].label>>, <<"rules", fields[i].rules>> >>]>>,
     <<"resolver", resolver>>,
     <<"uiLib", uiLib>> >>

SeedPayload ==
  << <<"fields",
       << << <<"name", T_email>>, <<"type", "email">>, <<"label", T_Email>>,
             <<"rules", T_seedRules>> >> >> >>,
     <<"resolver", "zod">>,
     <<"uiLib", "shadcn">> >>

------------------------------------------------------------------------------
(* The claims *)

C2_ProjectionIsNonBlankSubsequence ==
  /\ Shown = NonBlankNamed(fields)
  /\ Len(Shown) = Cardinality({i \in 1..Len(fields) : ~IsBlank(fields[i].name)})

C2_Witness ==
  /\ last.op = "name"
  /\ Len(fields) = 2
  /\ fields[1].name = T_space
  /\ ~IsBlank(fields[2].name)
  /\ Len(Shown) = 1

\* C3: an export of a store holding a row with an empty name or an empty label
\* reports an issue, writes nothing to the clipboard and leaves fields,
\* resolver and uiLib as they were.
C3_ExportFailsOnEmptyNameOrLabel ==
  [][(/\ last'.op = "export"
      /\ \E i \in 1..Len(fields) :
           fields[i].name = T_empty \/ fields[i].label = T_empty)
     => /\ issues' # {}
        /\ written' = << >>
        /\ fields' = fields /\ resolver' = resolver /\ uiLib' = uiLib]_vars

C3_Witness ==
  /\ last.op = "export"
  /\ issues = {<<2, "label">>}
  /\ written = << >>
  /\ fields[2].name # T_empty

\* C4: a successful export writes one payload with the keys fields, resolver
\* and uiLib, every row in the store's order with exactly name, type, label and
\* rules, and no id; for the untouched seed it is the seed payload.
C4_ExportPayload ==
  (last.op = "export" /\ issues = {})
  => /\ written = <<ExpectedPayload>>
     /\ (fields = <<SeedField>> /\ resolver = "zod" /\ uiLib = "shadcn")
          => written = <<SeedPayload>>

C4_Witness ==
  /\ last.op = "export"
  /\ written # << >>
  /\ Len(fields) = 2
  /\ HasId(fields[1])
  /\ fields[1].name # T_email

\* C5 (as claimed): an export never succeeds while the store holds a row whose
\* trimmed name is empty.
C5_NoExportWithBlankName ==
  (last.op = "export" /\ written # << >>)
  => \A i \in 1..Len(fields) : ~IsBlank(fields[i].name)

\* C6 (as claimed): right after a preview submit, a shown row is marked invalid
\* exactly when its own rule text mentions "required" and its preview value is
\* empty.
C6_MarkedIffOwnRuleRequired ==
  last.op = "submit"
  => \A j \in 1..Len(dom) :
       MarkedInvalid(dom[j].field)
       <=> (MentionsRequired(dom[j].field.rules)
            /\ PreviewValueOf(dom[j].field) = T_empty)

\* C6 (amended): right after a preview submit, a shown row whose name no other
\* shown row carries is marked invalid exactly when its rule text mentions
\* "required" and its preview value is empty; rows that share a name share one
\* mark, decided by the rule text of the last of them.
C6_MarkedIffRequiredOfName ==
  last.op = "submit"
  => \A j \in 1..Len(dom) :
       /\ NameIsUnique(j)
          => (MarkedInvalid(dom[j].field)
              <=> (MentionsRequired(dom[j].field.rules)
                   /\ PreviewValueOf(dom[j].field) = T_empty))
       /\ \A h \in j..Len(dom) :
            (dom[h].field.name = dom[j].field.name
             /\ \A g \in (h + 1)..Len(dom) : dom[g].field.name # dom[j].field.name)
            => (MarkedInvalid(dom[j].field)
                <=> (MentionsRequired(dom[h].field.rules)
                     /\ PreviewValueOf(dom[j].field) = T_empty))

C6_Witness ==
  /\ last.op = "submit"
  /\ Len(dom) = 2
  /\ NameIsUnique(1)
  /\ dom[1].field.rules = T_notrequired
  /\ MarkedInvalid(dom[1].field)
  /\ dom[2].field.rules = T_Required
  /\ ~MarkedInvalid(dom[2].field)
  /\ PreviewValueOf(dom[2].field) = T_empty

\* C7: the placeholder is shown exactly when the store has no row with a
\* non-blank name; a form is never rendered without an input, and no preview
\* submit passes without one.
C7_PlaceholderIffEmptyProjection ==
  /\ view = "placeholder" <=> \A i \in 1..Len(fields) : IsBlank(fields[i].name)
  /\ view = "form" => Len(dom) > 0
  /\ logged = "preview" => Len(dom) > 0

C7_Witness ==
  /\ view = "placeholder"
  /\ Len(fields) = 2
  /\ fields[1].name = T_space
  /\ fields[2].name = T_empty
  /\ isSubmitted

\* C8: a remove at the last position right after an append leaves the rows'
\* content, resolver and uiLib as they were before the append.
C8_AppendThenRemoveLastRestores ==
  (last.op = "remove" /\ last.undo # << >>)
  => Snapshot = last.undo[1]

C8_Witness ==
  /\ last.op = "remove"
  /\ last.undo # << >>
  /\ Len(fields) = 1
  /\ ~HasId(fields[1])
  /\ fields[1].label = T_L

\* C9: typing into the preview and submitting it leave fields, resolver and
\* uiLib as they were, report no schema issue, write nothing to the clipboard
\* and start no export; and whether an export passes is decided by the store
\* alone, whatever the preview's errors.
C9_PreviewIsIsolated ==
  [][/\ last'.op \in {"type", "submit"}
        => /\ fields' = fields /\ resolver' = resolver /\ uiLib' = uiLib
           /\ issues' = {}
           /\ written' = << >>
           /\ logged' # "export"
     /\ last'.op = "export"
        => ((written' # << >>)
            <=> \A i \in 1..Len(fields) :
                  fields[i].name # T_empty /\ fields[i].label # T_empty)]_vars

C9_Witness ==
  /\ last.op = "export"
  /\ written # << >>
  /\ isSubmitted
  /\ previewErrors # {}

\* C10 (as claimed): two shown rows have the same preview value and error mark
\* exactly when their names are equal, a text typed into a preview input is the
\* value of its name, and the preview holds as many value keys as there are
\* distinct non-blank names.
C10_SameValueIffSameName ==
  /\ \A i, j \in 1..Len(dom) :
       (/\ PreviewValueOf(dom[i].field) = PreviewValueOf(dom[j].field)
        /\ MarkedInvalid(dom[i].field) <=> MarkedInvalid(dom[j].field))
       <=> dom[i].field.name = dom[j].field.name
  /\ last.op = "type"
       => PreviewValueOf(dom[last.idx].field) = dom[last.idx].value
  /\ Cardinality(DOMAIN previewValues)
       = Cardinality({fields[i].name : i \in {h \in 1..Len(fields) :
                                                ~IsBlank(fields[h].name)}})

\* C10 (amended): two shown rows with equal names have the same preview value
\* and the same error mark; right after a text is typed into an input, the value
\* of its name is the text of the last input of that name (the typed text when
\* typed there); and the preview holds a value key for every distinct non-blank
\* name shown, and possibly more.
C10_SameNameSameValue ==
  /\ \A i, j \in 1..Len(dom) :
       dom[i].field.name = dom[j].field.name
       => /\ PreviewValueOf(dom[i].field) = PreviewValueOf(dom[j].field)
          /\ MarkedInvalid(dom[i].field) <=> MarkedInvalid(dom[j].field)
  /\ last.op = "type"
       => \A h \in last.idx..Len(dom) :
            (/\ dom[h].field.name = dom[last.idx].field.name
             /\ \A g \in (h + 1)..Len(dom) :
                  dom[g].field.name # dom[last.idx].field.name)
            => PreviewValueOf(dom[last.idx].field) = dom[h].value
  /\ {fields[i].name : i \in {h \in 1..Len(fields) : ~IsBlank(fields[h].name)}}
       \subseteq DOMAIN previewValues
  /\ Cardinality(DOMAIN previewValues)
       >= Cardinality({fields[i].name : i \in {h \in 1..Len(fields) :
                                                 ~IsBlank(fields[h].name)}})

C10_Witness ==
  /\ last.op = "type"
  /\ last.idx = 2
  /\ Len(dom) = 2
  /\ dom[1].field.name = dom[2].field.name
  /\ HasId(dom[1].field)
  /\ PreviewValueOf(dom[1].field) = T_7
  /\ Cardinality(DOMAIN previewValues) = 2

====
